---- MODULE Spec2Model ----
(***************************************************************************)
(* The client-side synchronisation of the bookmark manager: the Home      *)
(* component (page.tsx) with its React state (user, bookmarks, loading,   *)
(* configError), its three effects and its handlers, the data-access      *)
(* helpers of lib/supabase.ts, and the remote store they talk to (the     *)
(* bookmarks table with its row-level security, and the realtime feed).   *)
(*                                                                         *)
(* One browser session is modelled in full.  Other sessions (of the same  *)
(* or of another principal) appear as the Other* actions, which commit to *)
(* the remote store directly.  A remote call is served by the store at    *)
(* the moment it is issued; its response then stays in flight until the   *)
(* awaiting handler resumes, so responses and realtime events reach the   *)
(* component in any relative order.                                        *)
(***************************************************************************)
EXTENDS Integers, Sequences, FiniteSets, TLC

VARIABLES
  supabase,      \* lib/supabase.ts: the client is non-null (credentials are configured)
  mounted,       \* the Home component is mounted
  loading,       \* useState(true)
  configError,   \* useState<string | null>(null), as "is set"
  user,          \* useState<User | null>(null), as the user's id
  bookmarks,     \* useState<Bookmark[]>([])
  subscription,  \* the user id the open realtime channel filters on, or Null
  feed,          \* the events in flight on the open channel, oldest first
  inflight,      \* the responses of issued remote calls that were not yet handled
  db,            \* the rows of the bookmarks table
  now,           \* the store's clock: the number of rows inserted so far
  updates        \* the number of rows changed in place so far

vars == <<supabase, mounted, loading, configError, user, bookmarks,
          subscription, feed, inflight, db, now, updates>>

client == <<supabase, mounted, loading, configError>>

(***************************************************************************)
(* Bounds of the model.                                                    *)
(***************************************************************************)
MaxRows == 2        \* rows ever inserted into the table
MaxQueue == 2       \* events in flight on the channel
MaxInflight == 2    \* responses in flight
MaxUpdates == 1     \* rows changed in place
MaxTime == 6        \* the latest created_at of the ordering scenario

Null == "null"
Principals == {"u1", "u2"}
Titles == {"a", "b"}
NewTitles == {"a"}

(***************************************************************************)
(* types/index.ts: Bookmark.  The url is carried along with the title and  *)
(* plays no part in reconciliation; it is left out.                        *)
(***************************************************************************)
Bookmark(id, user_id, title, created_at) ==
  [id |-> id, user_id |-> user_id, title |-> title, created_at |-> created_at]

Ids(list) == {list[i].id : i \in 1..Len(list)}

Count(list, id) == Cardinality({i \in 1..Len(list) : list[i].id = id})

(***************************************************************************)
(* The remote store.                                                       *)
(***************************************************************************)
\* .eq('user_id', userId).order('created_at', { ascending: false })
RECURSIVE OrderDesc(_)
OrderDesc(rows) ==
  IF rows = {} THEN <<>>
  ELSE LET newest == CHOOSE r \in rows : \A s \in rows : s.created_at <= r.created_at
       IN  <<newest>> \o OrderDesc(rows \ {newest})

\* The policy "Users can view own bookmarks": auth.uid() = user_id.
Visible(uid) == {r \in db : r.user_id = uid}

\* getBookmarks: the rows of userId, newest first; [] when the call fails.
getBookmarks(userId, ok) ==
  IF ok THEN OrderDesc({r \in Visible(userId) : r.user_id = userId}) ELSE <<>>

\* id UUID DEFAULT gen_random_uuid(), created_at DEFAULT NOW(): both fresh.
NewRow(userId, title) == Bookmark(now + 1, userId, title, now + 1)

(***************************************************************************)
(* The realtime channel: filter user_id=eq.<userId>, events in commit      *)
(* order.                                                                  *)
(***************************************************************************)
Event(eventType, row) == [eventType |-> eventType, row |-> row]

Matches(row) == subscription # Null /\ row.user_id = subscription

CanPublish(row) == Matches(row) => Len(feed) < MaxQueue

Publish(eventType, row) ==
  IF Matches(row) THEN Append(feed, Event(eventType, row)) ELSE feed

(***************************************************************************)
(* Responses in flight.                                                    *)
(***************************************************************************)
Response(kind, data, id, ok) == [kind |-> kind, data |-> data, id |-> id, ok |-> ok]

CanIssue(r) == r \notin inflight /\ Cardinality(inflight) < MaxInflight

(***************************************************************************)
(* The state updates of the component, as functions of the previous list.  *)
(***************************************************************************)
\* A slip in the callback: the new record is put last.
OnInsert_Append(prev, new) == prev \o <<new>>

\* setBookmarks((prev) => [payload.new, ...prev])
OnInsert(prev, new) == <<new>> \o prev

\* A slip in the callback: the comparison is turned round.
OnDelete_Inverted(prev, id) == SelectSeq(prev, LAMBDA b : b.id = id)

\* A slip in the callback: only the first record with the id is removed.
OnDelete_First(prev, id) ==
  LET hits == {i \in 1..Len(prev) : prev[i].id = id}
  IN  IF hits = {} THEN prev
      ELSE LET k == CHOOSE i \in hits : \A j \in hits : i <= j
           IN  SubSeq(prev, 1, k - 1) \o SubSeq(prev, k + 1, Len(prev))

\* setBookmarks((prev) => prev.filter((b) => b.id !== payload.old.id))
OnDelete(prev, id) == SelectSeq(prev, LAMBDA b : b.id # id)

\* A slip in the callback: a record that is not listed is put in front.
OnUpdate_Upsert(prev, new) ==
  IF new.id \in {prev[i].id : i \in 1..Len(prev)}
  THEN [i \in 1..Len(prev) |-> IF prev[i].id = new.id THEN new ELSE prev[i]]
  ELSE <<new>> \o prev

\* setBookmarks((prev) => prev.map((b) => (b.id === payload.new.id ? payload.new : b)))
OnUpdate(prev, new) ==
  [i \in 1..Len(prev) |-> IF prev[i].id = new.id THEN new ELSE prev[i]]

\* A slip in the callback: the INSERT branch is missing.
OnPayload_NoInsert(prev, payload) ==
  CASE payload.eventType = "DELETE" -> OnDelete(prev, payload.row.id)
    [] payload.eventType = "UPDATE" -> OnUpdate(prev, payload.row)
    [] OTHER -> prev

\* The callback given to subscribeToBookmarks.
OnPayload(prev, payload) ==
  CASE payload.eventType = "INSERT" -> OnInsert(prev, payload.row)
    [] payload.eventType = "DELETE" -> OnDelete(prev, payload.row.id)
    [] payload.eventType = "UPDATE" -> OnUpdate(prev, payload.row)
    [] OTHER -> prev

\* A slip in loadBookmarks: the answer is put in front of what is listed.
OnLoaded_Merge(prev, data) == data \o prev

\* A slip in loadBookmarks: an empty answer is taken for no answer.
OnLoaded_KeepOnEmpty(prev, data) == IF data = <<>> THEN prev ELSE data

\* loadBookmarks after the await: setBookmarks(data)
OnLoaded(prev, data) == data

\* A slip in handleAddBookmark: a placeholder entry is shown when the call failed.
OnAdded_Placeholder(prev, newBookmark) ==
  IF newBookmark # <<>> THEN <<newBookmark[1]>> \o prev
  ELSE <<Bookmark(0, Null, "a", 0)>> \o prev

\* handleAddBookmark after the await: newBookmark is <<row>>, or <<>> for null.
OnAdded(prev, newBookmark) ==
  IF newBookmark # <<>> THEN <<newBookmark[1]>> \o prev ELSE prev

\* A slip in handleDeleteBookmark: the test of success is inverted.
OnDeleted_Inverted(prev, id, success) ==
  IF ~success THEN SelectSeq(prev, LAMBDA b : b.id # id) ELSE prev

\* handleDeleteBookmark after the await.
OnDeleted(prev, id, success) ==
  IF success THEN SelectSeq(prev, LAMBDA b : b.id # id) ELSE prev

(***************************************************************************)
(* The effects that depend on [user].  Setting the user to null when it is *)
(* null already renders nothing anew; any other value is a new object and  *)
(* runs the cleanup of the subscription effect, then the load effect, then *)
(* the subscription effect.                                                *)
(***************************************************************************)
\* A slip in the subscription effect: it returns no cleanup, so the channel of
\* the previous render stays open.
UserEffects_NoCleanup(u, ok) ==
  IF u = Null
  THEN /\ bookmarks' = <<>>
       /\ UNCHANGED <<subscription, feed, inflight>>
  ELSE LET r == Response("list", getBookmarks(u, ok), 0, ok)
       IN  /\ CanIssue(r)
           /\ bookmarks' = bookmarks
           /\ inflight' = inflight \cup {r}
           /\ subscription' = IF subscription = Null THEN u ELSE subscription
           /\ feed' = feed

UserEffects(u, ok) ==
  IF u = Null
  THEN /\ bookmarks' = <<>>
       /\ subscription' = Null
       /\ feed' = <<>>
       /\ inflight' = inflight
  ELSE LET r == Response("list", getBookmarks(u, ok), 0, ok)
       IN  /\ CanIssue(r)
           /\ bookmarks' = bookmarks
           /\ inflight' = inflight \cup {r}
           /\ subscription' = u
           /\ feed' = <<>>

Init ==
  /\ supabase \in BOOLEAN
  /\ mounted = TRUE
  /\ loading = TRUE
  /\ configError = FALSE
  /\ user = Null
  /\ bookmarks = <<>>
  /\ subscription = Null
  /\ feed = <<>>
  /\ inflight = {}
  /\ db = {}
  /\ now = 0
  /\ updates = 0

\* A slip in checkUser: the test of the missing client is left out.
CheckUser_NoGuard(u, ok) ==
  /\ mounted /\ loading
  /\ loading' = FALSE
  /\ configError' = configError
  /\ user' = u
  /\ UserEffects(u, ok)
  /\ UNCHANGED <<supabase, mounted, db, now, updates>>

\* checkUser: the session found on mount.
CheckUser(u, ok) ==
  /\ mounted /\ loading
  /\ loading' = FALSE
  /\ IF ~supabase
     THEN /\ configError' = TRUE
          /\ UNCHANGED <<user, bookmarks, subscription, feed, inflight>>
     ELSE /\ configError' = configError
          /\ user' = u
          /\ UserEffects(u, ok)
  /\ UNCHANGED <<supabase, mounted, db, now, updates>>

\* What is rendered: the form and the list are shown to a signed-in user only.
Rendered == mounted /\ ~loading /\ ~configError /\ user # Null

\* supabase.auth.onAuthStateChange((_event, session) => setUser(session?.user || null)):
\* a sign-in, a sign-out, or a refreshed session of the same user.  A session of
\* another user follows a sign-out.
AuthStateChange(u, ok) ==
  /\ mounted /\ supabase /\ ~loading
  /\ user = Null \/ u = Null \/ u = user
  /\ ~(user = Null /\ u = Null)
  /\ user' = u
  /\ UserEffects(u, ok)
  /\ UNCHANGED <<client, db, now, updates>>

\* handleSignOut: await signOut(); setUser(null); setBookmarks([]).
HandleSignOut ==
  /\ Rendered
  /\ user' = Null
  /\ bookmarks' = <<>>
  /\ subscription' = Null
  /\ feed' = <<>>
  /\ UNCHANGED <<client, inflight, db, now, updates>>

\* handleAddBookmark up to the await, and addBookmark served by the store:
\* .insert([{ user_id: userId, title, url }]).select().single()
HandleAddBookmark(title, ok) ==
  /\ Rendered
  /\ LET row == NewRow(user, title)
         r == Response("create", IF ok THEN <<row>> ELSE <<>>, 0, ok)
     IN  /\ CanIssue(r)
         /\ inflight' = inflight \cup {r}
         /\ IF ok
            THEN /\ now < MaxRows
                 /\ CanPublish(row)
                 /\ db' = db \cup {row}
                 /\ now' = now + 1
                 /\ feed' = Publish("INSERT", row)
            ELSE UNCHANGED <<db, now, feed>>
  /\ UNCHANGED <<client, user, bookmarks, subscription, updates>>

\* A slip in handleAddBookmark: a failed call is made once more.
AddBookmarkResponse_Retry(r) ==
  /\ mounted
  /\ r \in inflight /\ r.kind = "create"
  /\ bookmarks' = OnAdded(bookmarks, r.data)
  /\ IF r.data = <<>> /\ user # Null /\ now < MaxRows
     THEN LET row == NewRow(user, "a")
          IN  /\ CanPublish(row)
              /\ inflight' = (inflight \ {r}) \cup {Response("create", <<row>>, 0, TRUE)}
              /\ db' = db \cup {row}
              /\ now' = now + 1
              /\ feed' = Publish("INSERT", row)
     ELSE /\ inflight' = inflight \ {r}
          /\ UNCHANGED <<db, now, feed>>
  /\ UNCHANGED <<client, user, subscription, updates>>

\* handleAddBookmark after the await.
AddBookmarkResponse(r) ==
  /\ mounted
  /\ r \in inflight /\ r.kind = "create"
  /\ inflight' = inflight \ {r}
  /\ bookmarks' = OnAdded(bookmarks, r.data)
  /\ UNCHANGED <<client, user, subscription, feed, db, now, updates>>

\* handleDeleteBookmark up to the await, and deleteBookmark served by the store:
\* .delete().eq('id', bookmarkId), under the policy "Users can delete own bookmarks".
HandleDeleteBookmark(id, ok) ==
  /\ Rendered
  /\ id \in Ids(bookmarks)
  /\ LET gone == IF ok THEN {row \in db : row.id = id /\ row.user_id = user} ELSE {}
         r == Response("delete", <<>>, id, ok)
     IN  /\ CanIssue(r)
         /\ inflight' = inflight \cup {r}
         /\ db' = db \ gone
         /\ \A row \in gone : CanPublish(row)
         /\ feed' = IF gone = {} THEN feed
                    ELSE Publish("DELETE", CHOOSE row \in gone : TRUE)
  /\ UNCHANGED <<client, user, bookmarks, subscription, now, updates>>

\* handleDeleteBookmark after the await.
DeleteBookmarkResponse(r) ==
  /\ mounted
  /\ r \in inflight /\ r.kind = "delete"
  /\ inflight' = inflight \ {r}
  /\ bookmarks' = OnDeleted(bookmarks, r.id, r.ok)
  /\ UNCHANGED <<client, user, subscription, feed, db, now, updates>>

\* loadBookmarks after the await.
LoadBookmarksResponse(r) ==
  /\ mounted
  /\ r \in inflight /\ r.kind = "list"
  /\ inflight' = inflight \ {r}
  /\ bookmarks' = OnLoaded(bookmarks, r.data)
  /\ UNCHANGED <<client, user, subscription, feed, db, now, updates>>

\* The channel delivers its oldest event to the callback.
Realtime ==
  /\ mounted
  /\ feed # <<>>
  /\ bookmarks' = OnPayload(bookmarks, Head(feed))
  /\ feed' = Tail(feed)
  /\ UNCHANGED <<client, user, subscription, inflight, db, now, updates>>

\* Another session of principal p adds a bookmark.
OtherInsert(p, title) ==
  /\ mounted /\ supabase
  /\ now < MaxRows
  /\ LET row == NewRow(p, title)
     IN  /\ CanPublish(row)
         /\ db' = db \cup {row}
         /\ now' = now + 1
         /\ feed' = Publish("INSERT", row)
  /\ UNCHANGED <<client, user, bookmarks, subscription, inflight, updates>>

\* Another session of the row's owner deletes it.
OtherDelete(row) ==
  /\ mounted /\ supabase
  /\ row \in db
  /\ CanPublish(row)
  /\ db' = db \ {row}
  /\ feed' = Publish("DELETE", row)
  /\ UNCHANGED <<client, user, bookmarks, subscription, inflight, now, updates>>

\* The row is changed in the table (the app itself has no edit feature).
OtherUpdate(row, title) ==
  /\ mounted /\ supabase
  /\ row \in db /\ title # row.title
  /\ updates < MaxUpdates
  /\ LET new == [row EXCEPT !.title = title]
     IN  /\ CanPublish(new)
         /\ db' = (db \ {row}) \cup {new}
         /\ feed' = Publish("UPDATE", new)
  /\ updates' = updates + 1
  /\ UNCHANGED <<client, user, bookmarks, subscription, inflight, now>>

\* A slip in the subscription effect: the channel is left open on unmount.
Unmount_NoCleanup ==
  /\ mounted
  /\ mounted' = FALSE
  /\ user' = Null
  /\ bookmarks' = <<>>
  /\ inflight' = {}
  /\ UNCHANGED <<supabase, loading, configError, subscription, feed, db, now, updates>>

\* The cleanups of the effects: authSubscription?.unsubscribe(), subscription.unsubscribe().
\* The component's state is gone with it, and a response that arrives later sets nothing.
Unmount ==
  /\ mounted
  /\ mounted' = FALSE
  /\ subscription' = Null
  /\ feed' = <<>>
  /\ user' = Null
  /\ bookmarks' = <<>>
  /\ inflight' = {}
  /\ UNCHANGED <<supabase, loading, configError, db, now, updates>>

Next ==
  \/ \E u \in Principals \cup {Null}, ok \in BOOLEAN : CheckUser(u, ok)
  \/ \E u \in Principals \cup {Null}, ok \in BOOLEAN : AuthStateChange(u, ok)
  \/ HandleSignOut
  \/ \E title \in NewTitles, ok \in BOOLEAN : HandleAddBookmark(title, ok)
  \/ \E r \in inflight : AddBookmarkResponse(r)
  \/ \E id \in Ids(bookmarks), ok \in BOOLEAN : HandleDeleteBookmark(id, ok)
  \/ \E r \in inflight : DeleteBookmarkResponse(r)
  \/ \E r \in inflight : LoadBookmarksResponse(r)
  \/ Realtime
  \/ \E p \in Principals, title \in NewTitles : OtherInsert(p, title)
  \/ \E row \in db : OtherDelete(row)
  \/ \E row \in db, title \in Titles : OtherUpdate(row, title)
  \/ Unmount

Spec == Init /\ [][Next]_vars

(***************************************************************************)
(* Steps of the component, told apart by what they leave unchanged.        *)
(***************************************************************************)
\* The awaiting handler of response r resumes.
Handled(r) ==
  /\ r \in inflight
  /\ inflight' = inflight \ {r}
  /\ UNCHANGED <<client, user, subscription, feed, db, now, updates>>

\* The channel hands event e to the callback.
Delivered(e) ==
  /\ feed # <<>>
  /\ e = Head(feed)
  /\ feed' = Tail(feed)
  /\ UNCHANGED <<client, user, subscription, inflight, db, now, updates>>

FeedEvents == {feed[i] : i \in 1..Len(feed)}

(***************************************************************************)
(* C1.  The in-memory list never holds two records with the same id.       *)
(***************************************************************************)
C1_NoDuplicateIds ==
  \A i, j \in 1..Len(bookmarks) : bookmarks[i].id = bookmarks[j].id => i = j

(***************************************************************************)
(* C2.  While a principal is signed in, every record of the list is owned  *)
(* by that principal.                                                      *)
(***************************************************************************)
C2_OnlyOwnRecords ==
  user # Null => \A i \in 1..Len(bookmarks) : bookmarks[i].user_id = user

(***************************************************************************)
(* C3.  Principal-change reset: once the list call issued for the present  *)
(* principal has been answered (no list response is in flight), the list   *)
(* holds records of the present principal only, none of a former one.      *)
(***************************************************************************)
C3_ResetOnPrincipalChange ==
  (user # Null /\ \A r \in inflight : r.kind # "list")
    => \A i \in 1..Len(bookmarks) : bookmarks[i].user_id = user

(***************************************************************************)
(* C4.  Round trip: when the response of a successful create is handled    *)
(* and the insert event of the created row is no longer on the channel,    *)
(* the row's id is in the list exactly once, at the head.                  *)
(***************************************************************************)
C4_RoundTrip ==
  [][\A r \in inflight :
       (/\ Handled(r)
        /\ r.kind = "create" /\ r.data # <<>>
        /\ Event("INSERT", r.data[1]) \notin FeedEvents)
       => (/\ Count(bookmarks', r.data[1].id) = 1
           /\ bookmarks'[1].id = r.data[1].id)]_vars

(***************************************************************************)
(* C5, as the spec states it.  When the handler of a local delete of id    *)
(* resumes, id is absent from the list whether the remote call reported    *)
(* success or failure.                                                     *)
(***************************************************************************)
C5_DeleteRegardlessOfOutcome ==
  [][\A r \in inflight :
       (Handled(r) /\ r.kind = "delete") => r.id \notin Ids(bookmarks')]_vars

(***************************************************************************)
(* C5, amended.  When the handler of a local delete of id resumes, id is   *)
(* absent from the list if the remote call reported success, and the list  *)
(* is unchanged if it reported failure.                                    *)
(***************************************************************************)
C5_DeleteOnSuccessOnly ==
  [][\A r \in inflight :
       (Handled(r) /\ r.kind = "delete")
       => IF r.ok THEN r.id \notin Ids(bookmarks')
                  ELSE bookmarks' = bookmarks]_vars

\* Both outcomes of a local delete are about to be handled for an id of the list.
C5_Witness ==
  /\ mounted
  /\ \E r \in inflight : r.kind = "delete" /\ r.ok /\ r.id \in Ids(bookmarks)
  /\ \E r \in inflight : r.kind = "delete" /\ ~r.ok /\ r.id \in Ids(bookmarks)

(***************************************************************************)
(* C6.  A remote insert event whose record's id is already in the list     *)
(* leaves the list as it is (so the same event applied twice gives what it *)
(* gives applied once).                                                    *)
(***************************************************************************)
C6_InsertEventIdempotent ==
  [][\A e \in FeedEvents :
       (/\ Delivered(e)
        /\ e.eventType = "INSERT"
        /\ e.row.id \in Ids(bookmarks))
       => bookmarks' = bookmarks]_vars

(***************************************************************************)
(* C7.  A remote delete event for id leaves no record with that id in the  *)
(* list, changes nothing when the id is absent already, and applied a      *)
(* second time changes nothing; a local delete that succeeded filters the  *)
(* list the same way, so the delete event that follows it is a no-op.      *)
(***************************************************************************)
C7_DeleteEventIdempotent ==
  [][/\ \A e \in FeedEvents :
          (Delivered(e) /\ e.eventType = "DELETE")
          => (/\ e.row.id \notin Ids(bookmarks')
              /\ e.row.id \notin Ids(bookmarks) => bookmarks' = bookmarks
              /\ OnPayload(bookmarks', e) = bookmarks')
     /\ \A r \in inflight :
          (Handled(r) /\ r.kind = "delete" /\ r.ok)
          => (/\ bookmarks' = OnDelete(bookmarks, r.id)
              /\ OnDelete(bookmarks', r.id) = bookmarks')]_vars

\* The scenario of the spec: the list is [B, A] with B the newer, the local delete of A
\* has been served, and both its response and its delete event are about to arrive.
C7_Witness ==
  /\ mounted
  /\ Len(bookmarks) = 2
  /\ bookmarks[1].created_at > bookmarks[2].created_at
  /\ Response("delete", <<>>, bookmarks[2].id, TRUE) \in inflight
  /\ feed # <<>>
  /\ Head(feed) = Event("DELETE", bookmarks[2])

(***************************************************************************)
(* C8.  The list is sorted by created_at, newest first.                    *)
(***************************************************************************)
C8_SortedNewestFirst ==
  \A i, j \in 1..Len(bookmarks) :
    i < j => bookmarks[i].created_at >= bookmarks[j].created_at

(***************************************************************************)
(* The ordering scenario: a signed-in session with an empty list, and on   *)
(* its channel the insert events of three rows of the principal, in commit *)
(* order (created_at strictly increasing).                                 *)
(***************************************************************************)
InitOrder ==
  /\ supabase = TRUE
  /\ mounted = TRUE
  /\ loading = FALSE
  /\ configError = FALSE
  /\ bookmarks = <<>>
  /\ inflight = {}
  /\ updates = 0
  /\ \E p \in Principals, t1, t2, t3 \in 1..MaxTime :
       /\ t1 < t2 /\ t2 < t3
       /\ user = p
       /\ subscription = p
       /\ now = t3
       /\ db = {Bookmark(t, p, "a", t) : t \in {t1, t2, t3}}
       /\ feed = <<Event("INSERT", Bookmark(t1, p, "a", t1)),
                   Event("INSERT", Bookmark(t2, p, "a", t2)),
                   Event("INSERT", Bookmark(t3, p, "a", t3))>>

SpecOrder == InitOrder /\ [][Realtime]_vars

(***************************************************************************)
(* C9.  After the insert events of three rows with created_at t1 < t2 < t3 *)
(* were delivered in commit order to an empty list, the list is            *)
(* [t3, t2, t1].                                                           *)
(***************************************************************************)
C9_InsertOrder ==
  feed = <<>> => bookmarks = OrderDesc(db)

\* All three events were applied.
C9_Witness ==
  feed = <<>> /\ Len(bookmarks) = 3 /\ Cardinality(db) = 3

(***************************************************************************)
(* C10.  Every record of the list has an id the remote store generated,    *)
(* and handling the response of a failed create leaves the list unchanged. *)
(***************************************************************************)
C10_NoPhantomEntry ==
  /\ [](\A i \in 1..Len(bookmarks) : bookmarks[i].id \in 1..now)
  /\ [][\A r \in inflight :
          (Handled(r) /\ r.kind = "create" /\ r.data = <<>>)
          => bookmarks' = bookmarks]_vars

\* The response of a failed create is about to be handled while the list shows a record.
C10_Witness ==
  /\ mounted
  /\ bookmarks # <<>>
  /\ \E r \in inflight : r.kind = "create" /\ r.data = <<>>

(***************************************************************************)
(* C11.  getBookmarks never yields an error: a call that failed answers    *)
(* with the empty list, the component then holds the empty list, and the   *)
(* rest of its state is as before, so it goes on taking steps.             *)
(***************************************************************************)
C11_ListNeverFails ==
  /\ [](\A r \in inflight : (r.kind = "list" /\ ~r.ok) => r.data = <<>>)
  /\ [][\A r \in inflight :
          (r.kind = "list" /\ r \notin inflight' /\ mounted')
          => /\ bookmarks' = r.data
             /\ ~r.ok => bookmarks' = <<>>
             /\ UNCHANGED <<client, user, subscription, feed>>]_vars

\* The answer of a failed list call is awaited while the list shows a record.
C11_Witness ==
  /\ mounted /\ bookmarks # <<>>
  /\ \E r \in inflight : r.kind = "list" /\ ~r.ok

C13_EmptyWhenSignedOut == user = Null => bookmarks = <<>>

(***************************************************************************)
(* C14.  When nothing is in flight the ids of the list are the ids of the  *)
(* rows the store holds for the principal; a record brought by an event is *)
(* not lost when the answer of an earlier list call arrives after it.      *)
(* Stated for the step that ends the window: the last response in flight   *)
(* is the answer of a successful list call, and no event waits.            *)
(***************************************************************************)
C14_ListMatchesStore ==
  [][\A r \in inflight :
       (/\ Handled(r) /\ r.kind = "list" /\ r.ok
        /\ inflight' = {} /\ feed = <<>> /\ user # Null)
       => Ids(bookmarks') = {row.id : row \in Visible(user)}]_vars

(***************************************************************************)
(* Two sessions that stay open: the session found on mount is kept, and    *)
(* the channel delivers every event it holds.                              *)
(***************************************************************************)
NextOpen ==
  \/ \E u \in Principals \cup {Null}, ok \in BOOLEAN : CheckUser(u, ok)
  \/ \E title \in NewTitles, ok \in BOOLEAN : HandleAddBookmark(title, ok)
  \/ \E r \in inflight : AddBookmarkResponse(r)
  \/ \E id \in Ids(bookmarks), ok \in BOOLEAN : HandleDeleteBookmark(id, ok)
  \/ \E r \in inflight : DeleteBookmarkResponse(r)
  \/ \E r \in inflight : LoadBookmarksResponse(r)
  \/ Realtime
  \/ \E p \in Principals, title \in NewTitles : OtherInsert(p, title)
  \/ \E row \in db : OtherDelete(row)
  \/ \E row \in db, title \in Titles : OtherUpdate(row, title)

SpecOpen == Init /\ [][NextOpen]_vars /\ WF_vars(Realtime)

\* The event of kind eventType for the row with this id waits on the channel.
Queued(eventType, id) ==
  \E e \in FeedEvents : e.eventType = eventType /\ e.row.id = id

(***************************************************************************)
(* C15.  With both sessions open and events delivered, a bookmark created  *)
(* in the other session comes to be in this session's list exactly once,   *)
(* and one deleted there comes to be absent from it, with no reload.       *)
(***************************************************************************)
C15_CrossSessionSync ==
  \A id \in 1..MaxRows :
    /\ Queued("INSERT", id) ~> (Count(bookmarks, id) = 1)
    /\ Queued("DELETE", id) ~> (id \notin Ids(bookmarks))

\* The other session has created a row this session does not show yet, and has
\* deleted one this session still shows; both events wait on the channel.
C15_Witness ==
  /\ Rendered
  /\ \E id \in 1..MaxRows :
       /\ Queued("INSERT", id) /\ id \notin Ids(bookmarks)
       /\ \A r \in inflight : r.kind = "create" => r.data = <<>>
  /\ \E id \in 1..MaxRows : Queued("DELETE", id) /\ id \in Ids(bookmarks)

(***************************************************************************)
(* C16.  With no client the component ends in the configuration notice:    *)
(* no principal, nothing rendered that could start a call, no call in      *)
(* flight, no row written, no channel, and an empty list, for good.        *)
(***************************************************************************)
C16_ConfigAbsenceTerminal ==
  ~supabase =>
    /\ user = Null /\ bookmarks = <<>>
    /\ subscription = Null /\ feed = <<>>
    /\ inflight = {} /\ db = {}
    /\ ~Rendered
    /\ ~loading => configError

\* checkUser has found no client.
C16_Witness == ~supabase /\ configError /\ ~loading /\ mounted

(***************************************************************************)
(* C17.  The channel that is open is the one of the current principal: its *)
(* filter is the principal's id, and there is none when no principal is    *)
(* present, when the client is missing or after unmount.                   *)
(***************************************************************************)
C17_ChannelOfPrincipal ==
  /\ subscription = user
  /\ user = Null => (subscription = Null /\ feed = <<>>)
  /\ (~mounted \/ ~supabase) => subscription = Null

\* The principal has changed (a record of the former one is still listed) and
\* the channel is the one of the new principal.
C17_Witness ==
  /\ user # Null /\ subscription = user
  /\ \E i \in 1..Len(bookmarks) : bookmarks[i].user_id # user

(***************************************************************************)
(* C18.  An UPDATE event replaces the record with its id where it stands   *)
(* and changes nothing when the id is not listed: the length, the sequence *)
(* of ids and every other record are as before.                            *)
(***************************************************************************)
C18_UpdateInPlace ==
  [][\A e \in FeedEvents :
       (Delivered(e) /\ e.eventType = "UPDATE")
       => /\ Len(bookmarks') = Len(bookmarks)
          /\ \A i \in 1..Len(bookmarks) :
               /\ bookmarks'[i].id = bookmarks[i].id
               /\ bookmarks'[i] = IF bookmarks[i].id = e.row.id
                                  THEN e.row ELSE bookmarks[i]
          /\ e.row.id \notin Ids(bookmarks) => bookmarks' = bookmarks]_vars

\* The next event changes the second of two listed records.
C18_Witness ==
  /\ mounted /\ feed # <<>> /\ Head(feed).eventType = "UPDATE"
  /\ Len(bookmarks) = 2
  /\ bookmarks[2].id = Head(feed).row.id
  /\ bookmarks[1].id # Head(feed).row.id
  /\ bookmarks[2] # Head(feed).row

(***************************************************************************)
(* C19.  The step that makes P the principal issues a list call for P and  *)
(* opens the channel of P; when the answer of a list call arrives while a  *)
(* principal is present, the list becomes the records of the answer.       *)
(***************************************************************************)
C19_ReloadOnPrincipalChange ==
  [][/\ (user' # user /\ user' # Null)
        => /\ subscription' = user'
           /\ \E r \in inflight' \ inflight :
                /\ r.kind = "list"
                /\ r.data = IF r.ok THEN OrderDesc(Visible(user')) ELSE <<>>
                /\ inflight' = inflight \cup {r}
     /\ \A r \in inflight :
          (Handled(r) /\ r.kind = "list" /\ user # Null)
          => bookmarks' = r.data]_vars

\* The answer of P's list call, with a record of P, is awaited while P is the
\* principal and the list shows something else.
C19_Witness ==
  /\ Rendered
  /\ \E r \in inflight :
       /\ r.kind = "list" /\ r.ok /\ r.data # <<>> /\ r.data # bookmarks
       /\ \A i \in 1..Len(r.data) : r.data[i].user_id = user
  /\ bookmarks # <<>>

(***************************************************************************)
(* C20.  No call is made again: a step issues at most one call, the step   *)
(* that starts a create or a delete issues that one call and writes at     *)
(* most one row, and the step that takes a response, failed or not, issues *)
(* no call and writes nothing.                                             *)
(***************************************************************************)
C20_NoRetry ==
  [][/\ Cardinality(inflight' \ inflight) <= 1
     /\ \A r \in inflight' \ inflight :
          r.kind \in {"create", "delete"}
          => /\ inflight' = inflight \cup {r}
             /\ Cardinality(db' \ db) + Cardinality(db \ db') <= 1
             /\ ~r.ok => (db' = db /\ feed' = feed)
     /\ \A r \in inflight :
          (r \notin inflight' /\ mounted')
          => /\ inflight' = inflight \ {r}
             /\ db' = db /\ now' = now /\ feed' = feed]_vars

\* The answers of a failed create and of a failed delete are awaited.
C20_Witness ==
  /\ Rendered
  /\ \E r \in inflight : r.kind = "create" /\ ~r.ok
  /\ \E r \in inflight : r.kind = "delete" /\ ~r.ok

(***************************************************************************)
(* C21.  A record that is listed leaves the list only by the answer of a   *)
(* local delete of its id, by a DELETE event for its id, or by a change of *)
(* principal (unmount included); no other step, the arrival of a late list *)
(* response in particular, removes it.                                     *)
(***************************************************************************)
C21_LeavesOnlyByDelete ==
  [][\A id \in Ids(bookmarks) \ Ids(bookmarks') :
       \/ user' # user
       \/ mounted' # mounted
       \/ \E r \in inflight : Handled(r) /\ r.kind = "delete" /\ r.id = id
       \/ \E e \in FeedEvents :
            Delivered(e) /\ e.eventType = "DELETE" /\ e.row.id = id]_vars

\* The records of list whose id is not id, in their order.
Others(list, id) == SelectSeq(list, LAMBDA b : b.id # id)

(***************************************************************************)
(* C22.  A local delete of x, from the click to the handled answer, and a  *)
(* DELETE event for x change nothing but x: the records with another id    *)
(* stay, unchanged and in the same order, and none is added.               *)
(***************************************************************************)
C22_DeleteTouchesOnlyItsId ==
  [][/\ \A r \in inflight' \ inflight :
          r.kind = "delete" => bookmarks' = bookmarks
     /\ \A r \in inflight :
          (Handled(r) /\ r.kind = "delete")
          => Others(bookmarks', r.id) = Others(bookmarks, r.id)
     /\ \A e \in FeedEvents :
          (Delivered(e) /\ e.eventType = "DELETE")
          => Others(bookmarks', e.row.id) = Others(bookmarks, e.row.id)]_vars

\* The next event deletes the first of two listed records, and the answer of a
\* successful local delete of the second one is awaited.
C22_Witness ==
  /\ mounted /\ Len(bookmarks) = 2 /\ bookmarks[1].id # bookmarks[2].id
  /\ feed # <<>> /\ Head(feed).eventType = "DELETE"
  /\ Head(feed).row.id = bookmarks[1].id
  /\ \E r \in inflight : r.kind = "delete" /\ r.ok /\ r.id = bookmarks[2].id

====
